---- MODULE Spec2Model ----
(***************************************************************************)
(* Model of the useHlsPlayer hook                                          *)
(* (src/components/player/hooks/useHlsPlayer.ts).                          *)
(*                                                                         *)
(* The hook owns one effect.  React runs the effect after mount and after  *)
(* every render whose dependency list [src, videoRef, autoPlay,            *)
(* onAutoPlayPrevented, onError] changed, running the previous effect's    *)
(* cleanup first; on unmount only the cleanup runs.  Cleanup and effect    *)
(* body run back to back on the single JavaScript thread, so each trigger  *)
(* is one atomic action.                                                   *)
(*                                                                         *)
(* Every run of the effect body that constructs an engine (new Hls) makes  *)
(* a closure: the engine `hls`, the props of that render, and the two      *)
(* retry counters.  The closure is the record engines[e]; e (its index)    *)
(* is the generation of the engine.  The three handlers registered on the  *)
(* engine are the actions FragLoaded, ManifestParsed and HlsError.  The    *)
(* handlers hold no test of whether their engine is still bound, and the   *)
(* engine is an external collaborator whose events are delivered           *)
(* asynchronously, so the model lets an event of any constructed engine    *)
(* reach its handlers, a destroyed engine's included.                      *)
(***************************************************************************)
EXTENDS Integers, Sequences, FiniteSets, TLC

VARIABLES
    mounted,      \* the hook is mounted (its effect has run and not been unmounted)
    props,        \* props of the last committed render
    videoCurrent, \* videoRef.current is an element (TRUE) or null (FALSE)
    hlsIsSupported, \* Hls.isSupported() in this environment
    canPlayType,  \* video.canPlayType('application/vnd.apple.mpegurl') is truthy
    paused,       \* video.paused
    hlsRef,       \* hlsRef.current: 0 for null, else an engine
    cleanupHls,   \* `hls` of the last effect run that returned a cleanup:
                  \* -1 no cleanup function, 0 for null, else an engine
    engines,      \* the closures of the effect runs that constructed an engine
    pending,      \* play() promises not yet settled
    last          \* the last step taken: trigger or event, its input, the calls it made

vars == <<mounted, props, videoCurrent, hlsIsSupported, canPlayType, paused,
          hlsRef, cleanupHls, engines, pending, last>>

----------------------------------------------------------------------------
(* Bounds of the model *)

\* engines constructed in one behaviour
MaxEngines == 2
\* fatal network and media faults delivered in one behaviour
MaxFaults == 4
\* play() promises in flight at once
MaxPending == 1

MAX_RETRIES == 3

----------------------------------------------------------------------------
(* Values *)

NoCb == "none"
NoSrc == ""
Srcs == {NoSrc, "a.m3u8", "b.m3u8"}
OnErrorCbs == {NoCb, "onError"}
OnAutoPlayPreventedCbs == {NoCb, "onAutoPlayPrevented"}

NETWORK_ERROR == "networkError"
MEDIA_ERROR == "mediaError"
OTHER_ERROR == "otherError"
ErrorTypes == {NETWORK_ERROR, MEDIA_ERROR, OTHER_ERROR}
\* data.details: an engine detail code, or empty
ErrorDetails == {"", "internalException"}
\* the fault records drawn; the detail code is varied where the handler reads it
ErrorData ==
    {d \in [fatal : BOOLEAN, type : ErrorTypes, details : ErrorDetails] :
        d.details # "" => (d.fatal /\ d.type = OTHER_ERROR)}

\* data.frag.start
FragStarts == {0, 10}

\* rejection causes of play()
PlayCauses == {"NotAllowedError"}

\* The messages passed to onError
MsgHevc == "hevc-advisory"
MsgNetwork == "network-exhausted"
MsgMedia == "media-exhausted"
MsgFatal == "fatal"
MsgUnsupported == "hls-unsupported"
UnknownDetail == "unknown"

----------------------------------------------------------------------------
(* Codec strings: sequences of characters, so that toLowerCase and includes *)
(* are computed as the code computes them.                                  *)

LowerChar(c) ==
    CASE c = "A" -> "a" [] c = "B" -> "b" [] c = "C" -> "c" [] c = "E" -> "e"
      [] c = "H" -> "h" [] c = "L" -> "l" [] c = "V" -> "v"
      [] OTHER -> c

toLowerCase(s) == [i \in DOMAIN s |-> LowerChar(s[i])]

includes(s, t) ==
    \E i \in 0..(Len(s) - Len(t)) : SubSeq(s, i + 1, i + Len(t)) = t

CodecHvc1 == <<"h","v","c","1",".","1",".","6",".","L","9","3",".","B","0">>
CodecHev1 == <<"h","e","v","1",".","1",".","6",".","L","9","3",".","B","0">>
CodecHEVC == <<"H","E","V","C">>
CodecH265 == <<"H","2","6","5">>
CodecAvc1 == <<"a","v","c","1",".","6","4","0","0","1","f">>

\* a level of hls.levels; videoCodec may be undefined
Level(codec) == [defined |-> TRUE, videoCodec |-> codec]
LevelNoCodec == [defined |-> FALSE, videoCodec |-> <<>>]

\* the values of hls.levels drawn at a manifest-parsed event
LevelLists ==
    { <<>>,
      <<Level(CodecAvc1)>>,
      <<Level(CodecAvc1), Level(CodecHvc1)>>,
      <<Level(CodecHev1), Level(CodecHEVC)>>,
      <<LevelNoCodec, Level(CodecH265)>> }

\* level.videoCodec?.toLowerCase().includes('hev') || ...includes('h265')
LevelIsHEVC(level) ==
    /\ level.defined
    /\ \/ includes(toLowerCase(level.videoCodec), <<"h","e","v">>)
       \/ includes(toLowerCase(level.videoCodec), <<"h","2","6","5">>)

\* levels && levels.length > 0 && levels.some(...)
hasHEVC(levels) ==
    /\ Len(levels) > 0
    /\ \E i \in 1..Len(levels) : LevelIsHEVC(levels[i])

----------------------------------------------------------------------------
(* Calls made by a step *)

Call(fn, eng, cb, msg, detail) ==
    [fn |-> fn, eng |-> eng, cb |-> cb, msg |-> msg, detail |-> detail]

CallDestroy(e) == Call("destroy", e, NoCb, "", "")
CallNewHls(e) == Call("new", e, NoCb, "", "")
CallLoadSource(e, src) == Call("loadSource", e, NoCb, "", src)
CallAttachMedia(e) == Call("attachMedia", e, NoCb, "", "")
CallSetSrc(src) == Call("video.src", 0, NoCb, "", src)
CallPlay(e) == Call("play", e, NoCb, "", "")
CallStartLoad(e) == Call("startLoad", e, NoCb, "", "")
CallRecoverMediaError(e) == Call("recoverMediaError", e, NoCb, "", "")

\* onError?.(message)
OnError(cb, e, msg, detail) ==
    IF cb = NoCb THEN <<>> ELSE <<Call("onError", e, cb, msg, detail)>>

\* onAutoPlayPrevented?.(err)
OnAutoPlayPrevented(cb, e, cause) ==
    IF cb = NoCb THEN <<>> ELSE <<Call("onAutoPlayPrevented", e, cb, "", cause)>>

NoData == [fatal |-> FALSE, type |-> "", details |-> "", start |-> -1, levels |-> <<>>]

Step(op, e, data, calls) == [op |-> op, eng |-> e, data |-> data, calls |-> calls]

----------------------------------------------------------------------------
(* The effect *)

\* hls.destroy()
DestroyHls(engs, e) == [engs EXCEPT ![e].destroyed = TRUE]

\* counters kept at module scope: a new closure starts from the counters of the one before
NewClosureSharedCounters(p) ==
    [destroyed |-> FALSE,
     autoPlay |-> p.autoPlay,
     onAutoPlayPrevented |-> p.onAutoPlayPrevented,
     onError |-> p.onError,
     networkErrorRetries |->
         IF engines = <<>> THEN 0 ELSE engines[Len(engines)].networkErrorRetries,
     mediaErrorRetries |->
         IF engines = <<>> THEN 0 ELSE engines[Len(engines)].mediaErrorRetries,
     startLoadCalls |-> 0,
     recoverMediaErrorCalls |-> 0]

\* the closure made by an effect run that constructs an engine
NewClosure(p) ==
    [destroyed |-> FALSE,
     autoPlay |-> p.autoPlay,
     onAutoPlayPrevented |-> p.onAutoPlayPrevented,
     onError |-> p.onError,
     networkErrorRetries |-> 0,
     mediaErrorRetries |-> 0,
     startLoadCalls |-> 0,
     recoverMediaErrorCalls |-> 0]

\* an effect that returns no cleanup
EffectCleanupMissing(engs, c) == [engines |-> engs, calls |-> <<>>]

\* the cleanup returned by the effect: if (hls) hls.destroy()
EffectCleanup(engs, c) ==
    IF c > 0
    THEN [engines |-> DestroyHls(engs, c), calls |-> <<CallDestroy(c)>>]
    ELSE [engines |-> engs, calls |-> <<>>]

\* if (hlsRef.current) { hlsRef.current.destroy(); hlsRef.current = null }
ClearPrevious(engs, ref) ==
    IF ref > 0
    THEN [engines |-> DestroyHls(engs, ref), calls |-> <<CallDestroy(ref)>>]
    ELSE [engines |-> engs, calls |-> <<>>]

\* the engine preferred whenever its runtime is supported
PathOfEngineFirst(hlsOk, native) ==
    IF hlsOk THEN "engine-managed"
    ELSE IF native THEN "native" ELSE "unsupported"

\* no native fallback when the runtime is not supported
PathOfNoFallback(hlsOk, native) ==
    IF hlsOk
    THEN IF ~native THEN "engine-managed" ELSE "native"
    ELSE "unsupported"

\* the last branch taken for native support
PathOfAssumeNative(hlsOk, native) ==
    IF hlsOk
    THEN IF ~native THEN "engine-managed" ELSE "native"
    ELSE "native"

\* the playback path the effect body takes
PathOf(hlsOk, native) ==
    IF hlsOk
    THEN IF ~native THEN "engine-managed" ELSE "native"
    ELSE IF native THEN "native" ELSE "unsupported"

\* the effect body, run with props p on closures engs and hlsRef.current = ref
EffectBody(p, engs, ref) ==
    IF ~videoCurrent \/ p.src = NoSrc
    THEN [engines |-> engs, hlsRef |-> ref, cleanupHls |-> -1, calls |-> <<>>]
    ELSE
      LET prev == ClearPrevious(engs, ref)
          path == PathOf(hlsIsSupported, canPlayType)
          e == Len(engs) + 1
      IN  CASE path = "engine-managed" ->
                 [engines |-> Append(prev.engines, NewClosure(p)),
                  hlsRef |-> e,
                  cleanupHls |-> e,
                  calls |-> prev.calls \o <<CallNewHls(e), CallLoadSource(e, p.src),
                                            CallAttachMedia(e)>>]
            [] path = "native" ->
                 [engines |-> prev.engines, hlsRef |-> 0, cleanupHls |-> 0,
                  calls |-> prev.calls \o <<CallSetSrc(p.src)>>]
            [] OTHER ->
                 [engines |-> prev.engines, hlsRef |-> 0, cleanupHls |-> 0,
                  calls |-> prev.calls \o OnError(p.onError, 0, MsgUnsupported, "")]

\* the effect body run by a trigger, after the cleanup cl of the previous run (if any)
RunEffect(op, p, cl, ref) ==
    LET r == EffectBody(p, cl.engines, ref)
    IN  /\ Len(r.engines) <= MaxEngines
        /\ engines' = r.engines
        /\ hlsRef' = r.hlsRef
        /\ cleanupHls' = r.cleanupHls
        /\ last' = Step(op, r.hlsRef, NoData, cl.calls \o r.calls)

\* first render: useRef(null), then the effect
Mount(p) ==
    /\ ~mounted
    /\ mounted' = TRUE
    /\ props' = p
    /\ RunEffect("mount", p, [engines |-> engines, calls |-> <<>>], 0)
    /\ UNCHANGED <<videoCurrent, hlsIsSupported, canPlayType, paused, pending>>

\* a render that changes a dependency: the previous cleanup, then the effect
Update(p) ==
    /\ mounted
    /\ p # props
    /\ props' = p
    /\ RunEffect("update", p, EffectCleanup(engines, cleanupHls), hlsRef)
    /\ UNCHANGED <<mounted, videoCurrent, hlsIsSupported, canPlayType, paused, pending>>

\* an effect without its dependency list: every render runs cleanup and effect
RenderSameNoDeps ==
    /\ mounted
    /\ RunEffect("render-same", props, EffectCleanup(engines, cleanupHls), hlsRef)
    /\ UNCHANGED <<mounted, props, videoCurrent, hlsIsSupported, canPlayType, paused,
                   pending>>

\* a render with the same dependencies: React runs neither cleanup nor effect
RenderSame ==
    /\ mounted
    /\ last' = Step("render-same", hlsRef, NoData, <<>>)
    /\ UNCHANGED <<mounted, props, videoCurrent, hlsIsSupported, canPlayType, paused,
                   hlsRef, cleanupHls, engines, pending>>

\* unmount: the cleanup only
Unmount ==
    /\ mounted
    /\ mounted' = FALSE
    /\ LET cl == EffectCleanup(engines, cleanupHls)
       IN  /\ engines' = cl.engines
           /\ last' = Step("unmount", 0, NoData, cl.calls)
    /\ cleanupHls' = -1
    /\ UNCHANGED <<props, videoCurrent, hlsIsSupported, canPlayType, paused, hlsRef,
                   pending>>

----------------------------------------------------------------------------
(* The sink and the environment *)

\* React attaches or detaches the video element: videoRef.current changes,
\* which is no dependency of the effect
SetVideoCurrent ==
    /\ videoCurrent' = ~videoCurrent
    /\ last' = Step("ref", 0, NoData, <<>>)
    /\ UNCHANGED <<mounted, props, hlsIsSupported, canPlayType, paused, hlsRef,
                   cleanupHls, engines, pending>>

\* the user or the element itself starts or pauses playback
TogglePaused ==
    /\ paused' = ~paused
    /\ last' = Step("toggle", 0, NoData, <<>>)
    /\ UNCHANGED <<mounted, props, videoCurrent, hlsIsSupported, canPlayType, hlsRef,
                   cleanupHls, engines, pending>>

\* video.play(): a promise; the element starts playing at once when allowed to
Play(handler, e, allowed) ==
    /\ Len(pending) < MaxPending
    /\ pending' = Append(pending, [handler |-> handler, eng |-> e])
    /\ paused' = IF allowed THEN FALSE ELSE paused

NoPlay == UNCHANGED <<pending, paused>>

\* a play() promise fulfils: neither handler chains a then
PlayResolved(i) ==
    /\ i \in 1..Len(pending)
    /\ pending' = SubSeq(pending, 1, i - 1) \o SubSeq(pending, i + 1, Len(pending))
    /\ last' = Step("play-resolved", pending[i].eng, NoData, <<>>)
    /\ UNCHANGED <<mounted, props, videoCurrent, hlsIsSupported, canPlayType, paused,
                   hlsRef, cleanupHls, engines>>

\* both handlers swallowing the rejection with console.warn
PlayRejectedSwallowed(i, cause) ==
    /\ i \in 1..Len(pending)
    /\ pending' = SubSeq(pending, 1, i - 1) \o SubSeq(pending, i + 1, Len(pending))
    /\ last' = Step("play-rejected", pending[i].eng,
                    [NoData EXCEPT !.type = pending[i].handler, !.details = cause],
                    <<>>)
    /\ UNCHANGED <<mounted, props, videoCurrent, hlsIsSupported, canPlayType, paused,
                   hlsRef, cleanupHls, engines>>

\* a play() promise rejects: .catch(console.warn) in FRAG_LOADED,
\* .catch(err => onAutoPlayPrevented?.(err)) in MANIFEST_PARSED
PlayRejected(i, cause) ==
    /\ i \in 1..Len(pending)
    /\ pending' = SubSeq(pending, 1, i - 1) \o SubSeq(pending, i + 1, Len(pending))
    /\ LET pr == pending[i]
           cl == engines[pr.eng]
       IN  last' = Step("play-rejected", pr.eng,
                        [NoData EXCEPT !.type = pr.handler, !.details = cause],
                        IF pr.handler = "manifest"
                        THEN OnAutoPlayPrevented(cl.onAutoPlayPrevented, pr.eng, cause)
                        ELSE <<>>)
    /\ UNCHANGED <<mounted, props, videoCurrent, hlsIsSupported, canPlayType, paused,
                   hlsRef, cleanupHls, engines>>

----------------------------------------------------------------------------
(* The handlers registered on engine e *)

\* the handler without its test of autoPlay
FragLoadedNoIntentTest(e, start, allowed) ==
    /\ e \in 1..Len(engines)
    /\ IF paused /\ start = 0
       THEN /\ Play("frag", e, allowed)
            /\ last' = Step("fragLoaded", e, [NoData EXCEPT !.start = start],
                            <<CallPlay(e)>>)
       ELSE /\ NoPlay
            /\ allowed
            /\ last' = Step("fragLoaded", e, [NoData EXCEPT !.start = start], <<>>)
    /\ UNCHANGED <<mounted, props, videoCurrent, hlsIsSupported, canPlayType, hlsRef,
                   cleanupHls, engines>>

\* hls.on(Hls.Events.FRAG_LOADED, ...)
FragLoaded(e, start, allowed) ==
    /\ e \in 1..Len(engines)
    /\ LET cl == engines[e]
       IN  IF cl.autoPlay /\ paused /\ start = 0
           THEN /\ Play("frag", e, allowed)
                /\ last' = Step("fragLoaded", e, [NoData EXCEPT !.start = start],
                                <<CallPlay(e)>>)
           ELSE /\ NoPlay
                /\ allowed
                /\ last' = Step("fragLoaded", e, [NoData EXCEPT !.start = start], <<>>)
    /\ UNCHANGED <<mounted, props, videoCurrent, hlsIsSupported, canPlayType, hlsRef,
                   cleanupHls, engines>>

\* hls.on(Hls.Events.MANIFEST_PARSED, ...)
ManifestParsed(e, levels, allowed) ==
    /\ e \in 1..Len(engines)
    /\ LET cl == engines[e]
           advisory == IF hasHEVC(levels)
                       THEN OnError(cl.onError, e, MsgHevc, "")
                       ELSE <<>>
       IN  IF cl.autoPlay
           THEN /\ Play("manifest", e, allowed)
                /\ last' = Step("manifestParsed", e, [NoData EXCEPT !.levels = levels],
                                advisory \o <<CallPlay(e)>>)
           ELSE /\ NoPlay
                /\ allowed
                /\ last' = Step("manifestParsed", e, [NoData EXCEPT !.levels = levels],
                                advisory)
    /\ UNCHANGED <<mounted, props, videoCurrent, hlsIsSupported, canPlayType, hlsRef,
                   cleanupHls, engines>>

\* fatal faults of the two counted categories delivered so far
FaultsSoFar ==
    LET RECURSIVE Sum(_)
        Sum(n) == IF n = 0 THEN 0
                  ELSE engines[n].networkErrorRetries + engines[n].mediaErrorRetries
                       + Sum(n - 1)
    IN  Sum(Len(engines))

\* one retry counter for both categories
NetworkErrorBranchOneCounter(cl, e) ==
    LET n == cl.networkErrorRetries + 1
    IN  IF n <= MAX_RETRIES
        THEN [closure |-> [cl EXCEPT !.networkErrorRetries = n,
                                     !.mediaErrorRetries = @ + 1,
                                     !.startLoadCalls = @ + 1],
              calls |-> <<CallStartLoad(e)>>]
        ELSE [closure |-> [cl EXCEPT !.networkErrorRetries = n,
                                     !.mediaErrorRetries = @ + 1,
                                     !.destroyed = TRUE],
              calls |-> OnError(cl.onError, e, MsgNetwork, "") \o <<CallDestroy(e)>>]

\* the ceiling compared with < : the third fault already gives up
NetworkErrorBranchStrict(cl, e) ==
    LET n == cl.networkErrorRetries + 1
    IN  IF n < MAX_RETRIES
        THEN [closure |-> [cl EXCEPT !.networkErrorRetries = n,
                                     !.startLoadCalls = @ + 1],
              calls |-> <<CallStartLoad(e)>>]
        ELSE [closure |-> [cl EXCEPT !.networkErrorRetries = n, !.destroyed = TRUE],
              calls |-> OnError(cl.onError, e, MsgNetwork, "") \o <<CallDestroy(e)>>]

\* case Hls.ErrorTypes.NETWORK_ERROR
NetworkErrorBranch(cl, e) ==
    LET n == cl.networkErrorRetries + 1
    IN  IF n <= MAX_RETRIES
        THEN [closure |-> [cl EXCEPT !.networkErrorRetries = n,
                                     !.startLoadCalls = @ + 1],
              calls |-> <<CallStartLoad(e)>>]
        ELSE [closure |-> [cl EXCEPT !.networkErrorRetries = n, !.destroyed = TRUE],
              calls |-> OnError(cl.onError, e, MsgNetwork, "") \o <<CallDestroy(e)>>]

\* media recovery with the counter never incremented: recovery without end
MediaErrorBranchUncounted(cl, e) ==
    LET n == cl.mediaErrorRetries
    IN  IF n <= MAX_RETRIES
        THEN [closure |-> [cl EXCEPT !.recoverMediaErrorCalls = @ + 1],
              calls |-> <<CallRecoverMediaError(e)>>]
        ELSE [closure |-> [cl EXCEPT !.destroyed = TRUE],
              calls |-> OnError(cl.onError, e, MsgMedia, "") \o <<CallDestroy(e)>>]

\* case Hls.ErrorTypes.MEDIA_ERROR
MediaErrorBranch(cl, e) ==
    LET n == cl.mediaErrorRetries + 1
    IN  IF n <= MAX_RETRIES
        THEN [closure |-> [cl EXCEPT !.mediaErrorRetries = n,
                                     !.recoverMediaErrorCalls = @ + 1],
              calls |-> <<CallRecoverMediaError(e)>>]
        ELSE [closure |-> [cl EXCEPT !.mediaErrorRetries = n, !.destroyed = TRUE],
              calls |-> OnError(cl.onError, e, MsgMedia, "") \o <<CallDestroy(e)>>]

\* the default case reporting the fault and leaving the engine bound
DefaultBranchNoDestroy(cl, e, data) ==
    [closure |-> cl,
     calls |-> OnError(cl.onError, e, MsgFatal,
                       IF data.details = "" THEN UnknownDetail ELSE data.details)]

\* default: onError?.(`...${data.details || '...'}`); hls?.destroy()
DefaultBranch(cl, e, data) ==
    [closure |-> [cl EXCEPT !.destroyed = TRUE],
     calls |-> OnError(cl.onError, e, MsgFatal,
                       IF data.details = "" THEN UnknownDetail ELSE data.details)
               \o <<CallDestroy(e)>>]

\* the handler without its test of data.fatal
ErrorHandlerNoFatalTest(cl, e, data) ==
    CASE data.type = NETWORK_ERROR -> NetworkErrorBranch(cl, e)
      [] data.type = MEDIA_ERROR -> MediaErrorBranch(cl, e)
      [] OTHER -> DefaultBranch(cl, e, data)

\* the ERROR handler's decision on fault data in closure cl
ErrorHandler(cl, e, data) ==
    IF data.fatal
    THEN CASE data.type = NETWORK_ERROR -> NetworkErrorBranch(cl, e)
           [] data.type = MEDIA_ERROR -> MediaErrorBranch(cl, e)
           [] OTHER -> DefaultBranch(cl, e, data)
    ELSE [closure |-> cl, calls |-> <<>>]

\* hls.on(Hls.Events.ERROR, ...)
HlsError(e, data) ==
    /\ e \in 1..Len(engines)
    /\ (data.fatal /\ data.type \in {NETWORK_ERROR, MEDIA_ERROR}) => FaultsSoFar < MaxFaults
    /\ LET r == ErrorHandler(engines[e], e, data)
       IN  /\ engines' = [engines EXCEPT ![e] = r.closure]
           /\ last' = Step("error", e,
                           [NoData EXCEPT !.fatal = data.fatal, !.type = data.type,
                                          !.details = data.details],
                           r.calls)
    /\ UNCHANGED <<mounted, props, videoCurrent, hlsIsSupported, canPlayType, paused,
                   hlsRef, cleanupHls, pending>>

----------------------------------------------------------------------------
(* Specifications.  The three specifications run the same actions; each    *)
(* draws the triggers and events of one part of the hook from sets small   *)
(* enough to explore exhaustively.                                         *)

NoProps == [src |-> NoSrc, autoPlay |-> FALSE, onAutoPlayPrevented |-> NoCb,
            onError |-> NoCb]

InitHook ==
    /\ mounted = FALSE
    /\ props = NoProps
    /\ hlsRef = 0
    /\ cleanupHls = -1
    /\ engines = <<>>
    /\ pending = <<>>
    /\ last = Step("init", 0, NoData, <<>>)

(* Lifecycle: every trigger of the effect in every environment; the engine *)
(* reports unrecoverable faults.                                           *)

PropsLifecycle == [src : Srcs, autoPlay : BOOLEAN,
                   onAutoPlayPrevented : {NoCb}, onError : OnErrorCbs]

ErrorDataLifecycle == {d \in ErrorData : d.type = OTHER_ERROR /\ d.details = ""}

Init ==
    /\ InitHook
    /\ videoCurrent \in BOOLEAN
    /\ hlsIsSupported \in BOOLEAN
    /\ canPlayType \in BOOLEAN
    /\ paused = TRUE

Next ==
    \/ \E p \in PropsLifecycle : Mount(p)
    \/ \E p \in PropsLifecycle : Update(p)
    \/ RenderSame
    \/ Unmount
    \/ SetVideoCurrent
    \/ \E e \in 1..MaxEngines, d \in ErrorDataLifecycle : HlsError(e, d)

Spec == Init /\ [][Next]_vars

(* Recovery: every fault record, on every engine constructed so far; the   *)
(* error callback changes (given or not), which rebinds the engine.        *)

PropsRecovery == [src : {"a.m3u8"}, autoPlay : {FALSE},
                  onAutoPlayPrevented : {NoCb}, onError : OnErrorCbs]

InitRecovery ==
    /\ InitHook
    /\ videoCurrent = TRUE
    /\ hlsIsSupported \in BOOLEAN
    /\ canPlayType \in BOOLEAN
    /\ paused = TRUE

NextRecovery ==
    \/ \E p \in PropsRecovery : Mount(p)
    \/ \E p \in PropsRecovery : Update(p)
    \/ Unmount
    \/ \E e \in 1..MaxEngines, d \in ErrorData : HlsError(e, d)

SpecRecovery == InitRecovery /\ [][NextRecovery]_vars

(* Playback: the fragment-loaded and manifest-parsed events and the play() *)
(* promises; autoplay intent changes, which rebinds the engine.            *)

PropsPlayback == [src : {"a.m3u8"}, autoPlay : BOOLEAN,
                  onAutoPlayPrevented : OnAutoPlayPreventedCbs, onError : {"onError"}]

InitPlayback ==
    /\ InitHook
    /\ videoCurrent = TRUE
    /\ hlsIsSupported \in BOOLEAN
    /\ canPlayType \in BOOLEAN
    /\ paused \in BOOLEAN

NextPlayback ==
    \/ \E p \in PropsPlayback : Mount(p)
    \/ \E a \in BOOLEAN : Update([props EXCEPT !.autoPlay = a])
    \/ Unmount
    \/ TogglePaused
    \/ \E i \in 1..MaxPending : PlayResolved(i)
    \/ \E i \in 1..MaxPending, c \in PlayCauses : PlayRejected(i, c)
    \/ \E e \in 1..MaxEngines, s \in FragStarts, a \in BOOLEAN : FragLoaded(e, s, a)
    \/ \E e \in 1..MaxEngines, l \in LevelLists, a \in BOOLEAN : ManifestParsed(e, l, a)

SpecPlayback == InitPlayback /\ [][NextPlayback]_vars

(* Counters: the counted faults among the other events and renders of a    *)
(* session without autoplay intent; the source changes, which rebinds the  *)
(* engine.                                                                 *)

PropsCounters == [src : Srcs \ {NoSrc}, autoPlay : {FALSE},
                  onAutoPlayPrevented : {NoCb}, onError : {"onError"}]

ErrorDataCounters ==
    {d \in ErrorData : d.fatal /\ d.type \in {NETWORK_ERROR, MEDIA_ERROR}}

LevelListsCounters == {<<Level(CodecAvc1)>>, <<Level(CodecHev1), Level(CodecHEVC)>>}

NextCounters ==
    \/ \E p \in PropsCounters : Mount(p)
    \/ \E p \in PropsCounters : Update(p)
    \/ RenderSame
    \/ Unmount
    \/ \E e \in 1..MaxEngines, d \in ErrorDataCounters : HlsError(e, d)
    \/ \E e \in 1..MaxEngines, s \in FragStarts : FragLoaded(e, s, TRUE)
    \/ \E e \in 1..MaxEngines, l \in LevelListsCounters : ManifestParsed(e, l, TRUE)

SpecCounters == InitRecovery /\ [][NextCounters]_vars

----------------------------------------------------------------------------
(* Properties *)

Engines == 1..Len(engines)
Live == {e \in Engines : ~engines[e].destroyed}

EngineEvents == {"fragLoaded", "manifestParsed", "error"}

\* the calls of step l to function fn
CallsOf(l, fn) == {i \in 1..Len(l.calls) : l.calls[i].fn = fn}

\* step l is a fault of the given severity and category
IsFault(l, fatal, type) ==
    l.op = "error" /\ l.data.fatal = fatal /\ l.data.type = type

\* C1: at most one constructed engine is not destroyed at any time: every
\* engine but the newest is destroyed, and a step that constructs an engine
\* destroys nothing after constructing it (the destroys of the older engines
\* come first).
C1_SingleLiveEngine ==
    /\ Cardinality(Live) <= 1
    /\ \A e \in Engines : e < Len(engines) => engines[e].destroyed
    /\ \A i \in CallsOf(last, "new") :
           \A j \in CallsOf(last, "destroy") : j < i

\* an update that tore down a bound engine and bound a new one
C1_Witness ==
    /\ last.op = "update"
    /\ Len(engines) = 2
    /\ engines[1].destroyed /\ ~engines[2].destroyed
    /\ CallsOf(last, "new") # {} /\ CallsOf(last, "destroy") # {}

\* C2: an event of an engine that has been torn down and replaced by a newer
\* one mutates nothing: no call is made and no closure changes.
C2_StaleEventIgnored ==
    [][(last'.op \in EngineEvents /\ last'.eng < Len(engines)
           /\ engines[last'.eng].destroyed)
        => (last'.calls = <<>> /\ engines' = engines)]_vars

\* C3: with the ceiling at 3, the first three fatal network faults of a
\* session each call startLoad and nothing else; from the fourth on startLoad
\* is not called, and the fourth reports the network-exhausted error once (when
\* onError is given) and destroys the engine; startLoad is called at most 3
\* times in a session.
C3_NetworkCeiling ==
    /\ \A e \in Engines : engines[e].startLoadCalls <= 3
    /\ IsFault(last, TRUE, NETWORK_ERROR) =>
         LET cl == engines[last.eng]
             n == cl.networkErrorRetries
         IN  /\ n >= 1
             /\ n <= 3 => last.calls = <<CallStartLoad(last.eng)>>
             /\ n >= 4 => CallsOf(last, "startLoad") = {}
             /\ n = 4 =>
                  /\ cl.destroyed
                  /\ last.calls = OnError(cl.onError, last.eng, MsgNetwork, "")
                                  \o <<CallDestroy(last.eng)>>

\* the fourth fatal network fault of a session, reported on onError
C3_Witness ==
    /\ IsFault(last, TRUE, NETWORK_ERROR)
    /\ engines[last.eng].networkErrorRetries = 4
    /\ engines[last.eng].startLoadCalls = 3
    /\ engines[last.eng].onError # NoCb
    /\ CallsOf(last, "onError") # {}

\* C4: a fatal media fault increments the media counter by one; while the
\* counter is at most 3 it calls recoverMediaError and nothing else; once the
\* counter is above 3 it reports the media-exhausted error (when onError is
\* given), destroys the engine and does not call recoverMediaError; so
\* recoverMediaError is called at most 3 times in a session.
C4_MediaCeiling ==
    [][IsFault(last', TRUE, MEDIA_ERROR) =>
         LET e == last'.eng
             n == engines'[e].mediaErrorRetries
         IN  /\ n = engines[e].mediaErrorRetries + 1
             /\ engines'[e].recoverMediaErrorCalls <= 3
             /\ n <= 3 => last'.calls = <<CallRecoverMediaError(e)>>
             /\ n > 3 =>
                  /\ engines'[e].destroyed
                  /\ engines'[e].recoverMediaErrorCalls
                       = engines[e].recoverMediaErrorCalls
                  /\ last'.calls = OnError(engines[e].onError, e, MsgMedia, "")
                                   \o <<CallDestroy(e)>>]_vars

\* the first fatal media fault above the ceiling, reported on onError
C4_Witness ==
    /\ IsFault(last, TRUE, MEDIA_ERROR)
    /\ engines[last.eng].mediaErrorRetries = 4
    /\ engines[last.eng].recoverMediaErrorCalls = 3
    /\ engines[last.eng].onError # NoCb
    /\ CallsOf(last, "onError") # {}

\* C5: Failed is terminal: the fault that follows a fault on which the
\* handler destroyed its engine calls neither startLoad nor recoverMediaError.
C5_FailedIsTerminal ==
    [][(last.op = "error" /\ CallsOf(last, "destroy") # {}
           /\ last'.op = "error" /\ last'.eng = last.eng)
        => (CallsOf(last', "startLoad") = {}
            /\ CallsOf(last', "recoverMediaError") = {})]_vars

\* C6: a fatal fault of category other destroys the engine, calls neither
\* startLoad nor recoverMediaError, leaves both counters as they are and, when
\* onError is given, reports exactly one fatal error, which carries the
\* fault's detail code when the fault has one.
C6_OtherFaultFails ==
    [][IsFault(last', TRUE, OTHER_ERROR) =>
         LET e == last'.eng
             l == last'
         IN  /\ engines'[e].destroyed
             /\ CallsOf(l, "destroy") # {}
             /\ CallsOf(l, "startLoad") = {}
             /\ CallsOf(l, "recoverMediaError") = {}
             /\ engines'[e].networkErrorRetries = engines[e].networkErrorRetries
             /\ engines'[e].mediaErrorRetries = engines[e].mediaErrorRetries
             /\ engines[e].onError = NoCb => CallsOf(l, "onError") = {}
             /\ engines[e].onError # NoCb =>
                  /\ Cardinality(CallsOf(l, "onError")) = 1
                  /\ \A i \in CallsOf(l, "onError") :
                         /\ l.calls[i].msg = MsgFatal
                         /\ l.calls[i].cb = engines[e].onError
                         /\ l.data.details # "" =>
                                l.calls[i].detail = l.data.details]_vars

\* a fatal fault of category other, with a detail code, on a live engine
\* whose two counters are above zero
C6_Witness ==
    /\ IsFault(last, TRUE, OTHER_ERROR)
    /\ last.data.details # ""
    /\ last.eng = Len(engines)
    /\ engines[last.eng].networkErrorRetries > 0
    /\ engines[last.eng].mediaErrorRetries > 0
    /\ engines[last.eng].onError # NoCb
    /\ last.calls # <<>> /\ last.calls[Len(last.calls)].fn = "destroy"

\* C7: a non-fatal fault changes nothing: no call is made, and the closures
\* (counters, engine state), the engine handle and the sink stay as they are.
C7_NonFatalNoChange ==
    [][(last'.op = "error" /\ ~last'.data.fatal) =>
         /\ last'.calls = <<>>
         /\ UNCHANGED <<mounted, props, videoCurrent, hlsIsSupported, canPlayType,
                        paused, hlsRef, cleanupHls, engines, pending>>]_vars

\* a non-fatal fault on the bound, live engine in the middle of recovery
C7_Witness ==
    /\ last.op = "error" /\ ~last.data.fatal
    /\ last.eng = hlsRef
    /\ ~engines[last.eng].destroyed
    /\ engines[last.eng].networkErrorRetries > 0

\* the counters of the newest closure, zero when there is none
CurrentCounters(engs) ==
    IF engs = <<>> THEN <<0, 0>>
    ELSE <<engs[Len(engs)].networkErrorRetries, engs[Len(engs)].mediaErrorRetries>>

\* C8: no counter of any closure ever decreases; a closure starts with both
\* counters at zero; and the counters of the current session fall (to zero)
\* only on a step that binds a new engine.
C8_CountersMonotone ==
    [][/\ Len(engines') >= Len(engines)
       /\ \A e \in Engines :
            /\ engines'[e].networkErrorRetries >= engines[e].networkErrorRetries
            /\ engines'[e].mediaErrorRetries >= engines[e].mediaErrorRetries
       /\ Len(engines') > Len(engines) =>
            CurrentCounters(engines') = <<0, 0>>
       /\ (\/ CurrentCounters(engines')[1] < CurrentCounters(engines)[1]
           \/ CurrentCounters(engines')[2] < CurrentCounters(engines)[2]) =>
            (Len(engines') > Len(engines) /\ CallsOf(last', "new") # {})]_vars

\* a new binding that starts at zero after a session that counted faults of
\* both categories
C8_Witness ==
    /\ last.op = "update"
    /\ Len(engines) = 2
    /\ engines[1].networkErrorRetries > 0 /\ engines[1].mediaErrorRetries > 0
    /\ CurrentCounters(engines) = <<0, 0>>

\* C9: with autoplay intent and the sink playing (not paused), a
\* fragment-loaded or manifest-parsed event of the bound, live engine makes
\* no play request.
C9_NoDuplicatePlay ==
    [][(last'.op \in {"fragLoaded", "manifestParsed"}
           /\ last'.eng = hlsRef /\ ~engines[last'.eng].destroyed
           /\ engines[last'.eng].autoPlay /\ ~paused)
        => CallsOf(last', "play") = {}]_vars

\* hls.levels holds a level whose codec is "hvc1.1.6.L93.B0"
HasHvc1(levels) ==
    \E i \in 1..Len(levels) : levels[i].defined /\ levels[i].videoCodec = CodecHvc1

\* C10: a manifest-parsed event whose levels include codec "hvc1.1.6.L93.B0"
\* reports exactly one codec advisory on onError (when given) and does not
\* destroy the engine.
C10_Hvc1Advisory ==
    (/\ last.op = "manifestParsed"
     /\ HasHvc1(last.data.levels)
     /\ engines[last.eng].onError # NoCb)
    => /\ Cardinality({i \in CallsOf(last, "onError") :
                          last.calls[i].msg = MsgHevc}) = 1
       /\ CallsOf(last, "destroy") = {}

\* C11: when the play() requested on manifest-parsed is rejected,
\* onAutoPlayPrevented (when given) is called exactly once, with the cause of
\* the rejection; onError is not called, nothing else is called, and the
\* closures (engine state, counters) and the engine handle stay as they are.
C11_AutoPlayPrevented ==
    [][(last'.op = "play-rejected" /\ last'.data.type = "manifest") =>
         LET e == last'.eng
             cb == engines[e].onAutoPlayPrevented
         IN  /\ engines[e].autoPlay
             /\ CallsOf(last', "onError") = {}
             /\ cb = NoCb => last'.calls = <<>>
             /\ cb # NoCb =>
                  last'.calls = <<Call("onAutoPlayPrevented", e, cb, "",
                                       last'.data.details)>>
             /\ UNCHANGED <<engines, hlsRef, cleanupHls, mounted, props>>]_vars

\* the rejection of the play() of a manifest-parsed event, reported on
\* onAutoPlayPrevented with its cause, the engine bound and live
C11_Witness ==
    /\ last.op = "play-rejected" /\ last.data.type = "manifest"
    /\ last.data.details = "NotAllowedError"
    /\ last.eng = hlsRef /\ ~engines[last.eng].destroyed
    /\ Len(last.calls) = 1
    /\ last.calls[1].fn = "onAutoPlayPrevented"
    /\ last.calls[1].detail = "NotAllowedError"

\* C12: the engine event that follows the rejection of the play() of
\* manifest-parsed, on the same bound and live engine, makes no play request.
C12_NoPlayRetry ==
    [][(/\ last.op = "play-rejected" /\ last.data.type = "manifest"
        /\ last'.op \in {"fragLoaded", "manifestParsed"}
        /\ last'.eng = last.eng
        /\ last'.eng = hlsRef /\ ~engines[last'.eng].destroyed)
        => CallsOf(last', "play") = {}]_vars

\* the step ran the effect body past its early return
RanEffect ==
    /\ last.op \in {"mount", "update"}
    /\ videoCurrent
    /\ props.src # NoSrc

\* the step constructed an engine and bound it to the source
BoundEngine ==
    /\ CallsOf(last, "new") # {}
    /\ CallsOf(last, "video.src") = {}
    /\ hlsRef = Len(engines) /\ hlsRef > 0
    /\ \E i \in CallsOf(last, "loadSource") : last.calls[i].detail = props.src

\* the step set the source on the sink and constructed no engine
SetNativeSource ==
    /\ CallsOf(last, "new") = {}
    /\ \E i \in CallsOf(last, "video.src") : last.calls[i].detail = props.src

\* C13 as stated: whenever the engine runtime is supported the effect
\* constructs an engine, whether or not the sink plays the format natively;
\* the source is set on the sink only when the runtime is not supported.
C13_EngineFirst ==
    RanEffect =>
        /\ hlsIsSupported => BoundEngine
        /\ CallsOf(last, "video.src") # {} => (~hlsIsSupported /\ canPlayType)

\* C13 amended: the sink's native support decides first: with it the source
\* is set on the sink and no engine is constructed, whether or not the engine
\* runtime is supported; an engine is constructed only when the runtime is
\* supported and the sink has no native support; with neither, nothing is
\* constructed or set.
C13_NativeFirst ==
    RanEffect =>
        /\ canPlayType => SetNativeSource
        /\ (hlsIsSupported /\ ~canPlayType) => BoundEngine
        /\ (~hlsIsSupported /\ ~canPlayType) =>
             (CallsOf(last, "new") = {} /\ CallsOf(last, "video.src") = {})

\* the effect run with the runtime supported and the sink playing natively
C13_Witness ==
    /\ RanEffect
    /\ hlsIsSupported /\ canPlayType
    /\ SetNativeSource

\* C14: with native support and no engine runtime the effect sets the source
\* on the sink, and no engine is ever constructed.
C14_NativeNoEngine ==
    (canPlayType /\ ~hlsIsSupported) =>
        /\ engines = <<>> /\ hlsRef = 0
        /\ RanEffect => SetNativeSource

\* the effect run on the native path without engine runtime
C14_Witness ==
    /\ RanEffect
    /\ canPlayType /\ ~hlsIsSupported
    /\ last.calls = <<CallSetSrc(props.src)>>

\* C15: with neither engine runtime nor native support the effect reports
\* the configuration error on onError (when given) and does nothing else: no
\* engine, no source on the sink, no play request.
C15_Unsupported ==
    (~canPlayType /\ ~hlsIsSupported) =>
        /\ engines = <<>> /\ hlsRef = 0 /\ pending = <<>>
        /\ RanEffect =>
             last.calls = OnError(props.onError, 0, MsgUnsupported, "")

\* the effect run on the unsupported path, reported on onError
C15_Witness ==
    /\ RanEffect
    /\ ~canPlayType /\ ~hlsIsSupported
    /\ props.onError # NoCb
    /\ Len(last.calls) = 1 /\ last.calls[1].msg = MsgUnsupported

\* C16: a render with the same source, sink, autoplay intent and callbacks
\* changes nothing: no call is made, the engine handle, the closures (engine
\* state, counters) and the cleanup stay as they are.
C16_SameDepsNoOp ==
    [][last'.op = "render-same" =>
         /\ last'.calls = <<>>
         /\ UNCHANGED <<mounted, props, videoCurrent, hlsIsSupported, canPlayType,
                        paused, hlsRef, cleanupHls, engines, pending>>]_vars

\* a render with the same dependencies while a live engine that counted
\* faults is bound
C16_Witness ==
    /\ last.op = "render-same"
    /\ hlsRef > 0 /\ ~engines[hlsRef].destroyed
    /\ engines[hlsRef].networkErrorRetries > 0
    /\ engines[hlsRef].mediaErrorRetries > 0

\* the session has ended: the hook is unmounted or its source is empty
SessionEnded == ~mounted \/ props.src = NoSrc

\* C17: an unmount, or an update to an empty source, constructs no engine,
\* and once the session has ended every engine constructed is destroyed.
C17_TeardownOnly ==
    /\ SessionEnded => Live = {}
    /\ (last.op = "unmount" \/ (last.op = "update" /\ props.src = NoSrc)) =>
         CallsOf(last, "new") = {}

\* an update to an empty source that destroyed the bound engine
C17_Witness ==
    /\ last.op = "update" /\ props.src = NoSrc
    /\ Len(engines) >= 1
    /\ last.calls = <<CallDestroy(Len(engines))>>

\* C18: a non-null hlsRef.current refers to an engine that is not destroyed.
C18_HandleIsLive ==
    hlsRef > 0 => ~engines[hlsRef].destroyed

\* C19: a fatal network fault adds one to the network counter of its closure
\* and leaves the media counter; a fatal media fault adds one to the media
\* counter and leaves the network counter; no step changes a counter of
\* another closure, and fragment-loaded and manifest-parsed events change none.
C19_CountersIndependent ==
    [][/\ \A e \in Engines :
            LET dn == engines'[e].networkErrorRetries - engines[e].networkErrorRetries
                dm == engines'[e].mediaErrorRetries - engines[e].mediaErrorRetries
            IN  /\ (IsFault(last', TRUE, NETWORK_ERROR) /\ last'.eng = e)
                     => (dn = 1 /\ dm = 0)
                /\ (IsFault(last', TRUE, MEDIA_ERROR) /\ last'.eng = e)
                     => (dn = 0 /\ dm = 1)
                /\ ~(last'.op = "error" /\ last'.eng = e) => (dn = 0 /\ dm = 0)
       /\ last'.op \in {"fragLoaded", "manifestParsed"} => engines' = engines]_vars

\* a fatal media fault recovered in a session whose network retries are
\* exhausted
C19_Witness ==
    /\ IsFault(last, TRUE, MEDIA_ERROR)
    /\ engines[last.eng].networkErrorRetries = 3
    /\ engines[last.eng].mediaErrorRetries = 1
    /\ last.calls = <<CallRecoverMediaError(last.eng)>>

\* the path of this environment constructs engines
EngineManaged == hlsIsSupported /\ ~canPlayType

\* C20: a play request is made, a play() promise is pending and
\* onAutoPlayPrevented is called only for a session on the engine-managed path
\* whose autoplay intent is true: on the native and unsupported paths, and
\* while no session has had autoplay intent, there is none.
C20_PlayOnlyWithIntent ==
    /\ \A i \in CallsOf(last, "play") \cup CallsOf(last, "onAutoPlayPrevented") :
           /\ EngineManaged
           /\ last.calls[i].eng \in Engines
           /\ engines[last.calls[i].eng].autoPlay
    /\ \A i \in 1..Len(pending) :
           /\ EngineManaged
           /\ engines[pending[i].eng].autoPlay
    /\ (~EngineManaged \/ \A e \in Engines : ~engines[e].autoPlay) =>
           /\ pending = <<>>
           /\ CallsOf(last, "play") = {}
           /\ CallsOf(last, "onAutoPlayPrevented") = {}

\* the first fragment loaded on a paused sink in a session without autoplay
\* intent
C20_Witness ==
    /\ last.op = "fragLoaded" /\ last.data.start = 0
    /\ paused
    /\ last.eng = hlsRef /\ ~engines[last.eng].destroyed
    /\ ~engines[last.eng].autoPlay
    /\ last.calls = <<>>

====
